---------------------------- MODULE Spec2Model ----------------------------
(***************************************************************************)
(* Model of the deployment tool of the local AI server (src/deploy.py)     *)
(* and of the model-change command of src/models.py.                       *)
(*                                                                         *)
(* The state is the persisted layout under the base directory              *)
(* (directories, config.json, .env, docker-compose.yml, helper scripts),   *)
(* the user's ~/.bashrc, and the position of the running command.  One     *)
(* install run is the sequence BeginInstall, then one action per entry of  *)
(* the `steps` list of Installer.run_full_install; each step action is the *)
(* step function followed by the runner's handling of its result.          *)
(*                                                                         *)
(* What the environment decides is an input of the action that reads it:   *)
(* the exit code of every external command, the answer typed at every      *)
(* prompt or Ctrl-C in its place, the output of nvidia-smi, and whether    *)
(* mkdir() of the missing base directory or of the missing last directory, *)
(* open() of a missing config.json or open() of ~/.bashrc raises OSError.  *)
(* Ctrl-C can also arrive while a step runs.  open() of a file under the   *)
(* base directory raises exactly when the base directory is missing.  A    *)
(* call that raises leaves the file as it was.                             *)
(***************************************************************************)
EXTENDS Integers, Sequences, FiniteSets, TLC

(***************************************************************************)
(* Bounds of the model.                                                    *)
(***************************************************************************)
\* the largest number of GPUs nvidia-smi lists
MaxGPUs == 2
\* the largest tensor_parallel_size a user writes into config.json
MaxTP == 2
\* the number of distinct values os.urandom(16).hex() takes
NumTokens == 2
\* the number of install runs in one behaviour
MaxRuns == 2
\* the largest number of lines nvidia-smi prints for the detect command
MaxLines == 3

(***************************************************************************)
(* Program constants.                                                      *)
(***************************************************************************)
\* DEFAULT_CONFIG["llm"]["tensor_parallel_size"]
DefaultTP == 1
\* the default of config["llm"].get("tensor_parallel_size", 2)
FallbackTP == 2
\* DEFAULT_CONFIG["server"]["vllm_port"], ["anythingllm_port"]
DefaultVllmPort == 8000
DefaultAnythingPort == 3001
\* DEFAULT_CONFIG["llm"]["max_model_len"]
DefaultMaxModelLen == 4096
\* DEFAULT_CONFIG["llm"]["gpu_memory_utilization"], 0.85, in hundredths
DefaultUtilization == 85
\* the ports in the URLs show_status opens
StatusVllmPort == 8000
StatusAnythingPort == 3001
\* self.system_info = None: no snapshot has been taken
NoInfo == -1
\* the directories setup_directories creates: BASE_DIR, LOG_DIR, MODELS_DIR, DATA_DIR
NumDirs == 4

\* the thresholds of print_system_report, in the unit of memory_total_mb
Vram70B == 45000
Vram32BMulti == 24000
Vram32BSingle == 30000
Vram14B == 20000
\* the tensor_parallel_size the 70B recommendation prints
StatedTP == 2
\* print_system_report shows memory_total_mb / 1024 as GB
MBperGB == 1024

\* A model identifier is the sequence of its '/'-separated segments.
DefaultModel == <<"Qwen", "Qwen3-32B-Instruct">>

\* MODELS of src/models.py (two of its entries): id, quantization, min_gpus
MODELS ==
    { [id |-> <<"Qwen", "Qwen3-32B-Instruct">>, quantization |-> "awq", min_gpus |-> 1],
      [id |-> <<"google", "gemma-3-27b">>, quantization |-> "awq", min_gpus |-> 1] }

\* MODELS_DIR and DATA_DIR, with ~ for Path.home()
MODELS_DIR == "~/.local-ai-server/models"
DATA_DIR == "~/.local-ai-server/data"

\* DEFAULT_CONFIG, as json.dump writes it and json.load reads it back.
\* readable: json.load returns; lacks: the section or key that is missing
\* from the document ("": none); embedding: embedding.model
DEFAULT_CONFIG ==
    [ exists |-> TRUE,
      readable |-> TRUE,
      lacks |-> "",
      model |-> DefaultModel,
      backend |-> "vllm",
      has_tp |-> TRUE,
      tensor_parallel_size |-> DefaultTP,
      max_model_len |-> DefaultMaxModelLen,
      gpu_memory_utilization |-> DefaultUtilization,
      quantization |-> "awq",
      embedding |-> "BAAI/bge-large-en-v1.5",
      vllm_port |-> DefaultVllmPort,
      anythingllm_port |-> DefaultAnythingPort,
      models_dir |-> MODELS_DIR,
      data_dir |-> DATA_DIR ]

\* a path at which no file exists
NoConfig ==
    [ exists |-> FALSE, readable |-> FALSE, lacks |-> "", model |-> <<>>, backend |-> "",
      has_tp |-> FALSE, tensor_parallel_size |-> 0, max_model_len |-> 0,
      gpu_memory_utilization |-> 0, quantization |-> "", embedding |-> "",
      vllm_port |-> 0, anythingllm_port |-> 0, models_dir |-> "", data_dir |-> "" ]

\* written: the text has been written to the file
NoCompose ==
    [ exists |-> FALSE, written |-> FALSE, vllm_port |-> 0, model |-> <<>>,
      tensor_parallel |-> 0, max_model_len |-> 0, gpu_memory_utilization |-> 0,
      anythingllm_port |-> 0, model_pref |-> "", token_limit |-> 0,
      models_volume |-> "", data_volume |-> "" ]

NoEnv == [ exists |-> FALSE, VLLM_API_KEY |-> 0 ]

\* the `steps` list of run_full_install, in list order
Steps ==
    << "Setup directories", "Install NVIDIA drivers", "Install CUDA toolkit",
       "Install Docker", "Install NVIDIA Container Toolkit", "Create Docker Compose",
       "Create .env file", "Create management scripts", "Pull Docker images" >>

NumSteps == Len(Steps)

\* what a user types at a prompt, after .strip().lower()
Responses == {"", "y", "yes", "n"}

\* exit codes of an external command: zero and non-zero
ExitCodes == {0, 1}

\* Ctrl-C: input() or the running call raises KeyboardInterrupt
Interrupt == "^C"

\* the exit status of an interpreter that KeyboardInterrupt leaves uncaught:
\* it ends itself with SIGINT, which a shell reports as 128 + 2
InterruptExit == {130}

Min(a, b) == IF a <= b THEN a ELSE b

VARIABLES
    pc,          \* "idle": no command has run; "step": an install run is in its loop; "done": the command has exited
    cmd,         \* the command of the current or last process
    auto,        \* Installer.auto_mode
    sysG,        \* len(self.system_info.gpus) of the current install run
    idx,         \* position of the for loop in `steps`
    order,       \* names of the steps attempted in this run, in the order of their attempt
    last,        \* what the last attempted step did
    inputRead,   \* input() has been called in this run
    summary,     \* the final summary has been printed in this run
    exitCode,    \* exit status of the last process, -1 while none has exited
    dirs,        \* how many of BASE_DIR, LOG_DIR, MODELS_DIR, DATA_DIR exist (created in this order)
    configFile,  \* config.json
    envFile,     \* .env
    composeFile, \* docker-compose.yml
    scripts,     \* start.sh, stop.sh, status.sh, logs.sh exist
    bashrc,      \* number of CUDA blocks in ~/.bashrc
    runs,        \* the install runs started so far
    sv,          \* what the last serve/start, stop or status command did
    modelsOut,   \* what update_config_model did in the last command: "none": it was not
                 \* called; "True", "False": what it returned; "raise": an exception left it
    nvsmi,       \* the detect command: exit code and lines of the nvidia-smi query
    report,      \* the detect command: the snapshot and what was printed of it
    run1         \* the last install run that reached manifest generation, while config.json
                 \* has not been changed since: it was unattended and wrote the manifest
                 \* (ok), with its GPU count (G)

vars ==
    << pc, cmd, auto, sysG, idx, order, last, inputRead, summary, exitCode,
       dirs, configFile, envFile, composeFile, scripts, bashrc, runs, sv, modelsOut,
       run1, nvsmi, report >>

detectVars == << nvsmi, report >>

files == << dirs, configFile, envFile, composeFile, scripts, bashrc >>

NoStep ==
    [ step |-> "", pre |-> "na", asked |-> FALSE, declined |-> FALSE, cmds |-> 0,
      cmdFailed |-> FALSE, levels |-> {}, ret |-> "None", modified |-> FALSE,
      rerun |-> FALSE, runnerLog |-> "none", contAsked |-> FALSE,
      interrupted |-> FALSE ]

NoRun == [ ok |-> FALSE, G |-> 0 ]

\* a command that is none of serve/start, stop, status: said: "Not installed"
\* was printed; ops: the operations begun, in their order; probed: what the
\* two health endpoints did; health: what was printed about them; ports:
\* the ports of the URLs opened
NoSv == [ said |-> FALSE, ops |-> <<>>, probed |-> <<>>, health |-> <<>>, ports |-> <<>> ]

\* the detect command has not looked at the host
NoQuery == [ rc |-> 1, lines |-> <<>> ]

NoReport ==
    [ ran |-> FALSE, raised |-> FALSE, n |-> 0, vram |-> 0, cuda_available |-> FALSE,
      noGpuMsg |-> FALSE, recs |-> {}, tp |-> 0, totals |-> <<>>, free |-> <<>> ]

\* no command has run and nothing is installed
Fresh ==
    /\ pc = "idle"
    /\ cmd = "none"
    /\ auto = FALSE
    /\ sysG = NoInfo
    /\ idx = 1
    /\ order = <<>>
    /\ last = NoStep
    /\ inputRead = FALSE
    /\ summary = FALSE
    /\ exitCode = -1
    /\ dirs = 0
    /\ configFile = NoConfig
    /\ envFile = NoEnv
    /\ composeFile = NoCompose
    /\ scripts = FALSE
    /\ bashrc = 0
    /\ runs = 0
    /\ sv = NoSv
    /\ modelsOut = "none"
    /\ run1 = NoRun

Init ==
    /\ Fresh
    /\ nvsmi = NoQuery
    /\ report = NoReport


(***************************************************************************)
(* Helpers of the installer.                                               *)
(***************************************************************************)

\* a file-system call returns or raises OSError
IO == {"ok", "raise"}

\* the exit codes of n commands run in a row
Rcs(n) == [1..n -> ExitCodes]

\* what is typed at a prompt: nothing is read in auto mode
Typed(a) == IF a THEN {""} ELSE Responses

\* what happens at a prompt of run_full_install: an answer, or Ctrl-C
Prompted(a) == IF a THEN {""} ELSE Responses \cup {Interrupt}

\* Installer.confirm: the default in auto mode and on an empty answer
confirm(a, default, response) ==
    IF a THEN default
    ELSE IF response = "" THEN default
    ELSE response \in {"y", "yes"}

\* Installer.confirm reads the terminal exactly when auto_mode is off
confirmReads(a) == ~a

\* one input of a default-yes prompt of run_full_install for each way
\* confirm can take it: Ctrl-C, taken for yes, taken for no
Answers ==
    [ a \in BOOLEAN |->
        { CHOOSE y \in Prompted(a) :
              /\ (y = Interrupt) = (x = Interrupt)
              /\ confirm(a, TRUE, y) = confirm(a, TRUE, x) : x \in Prompted(a) } ]

\* Installer.run_step: FALSE only for a non-zero exit code under check
run_step(rc, check) ==
    IF rc # 0 THEN (IF check THEN FALSE ELSE TRUE) ELSE TRUE

\* memory.total values of the nvidia-smi query (MiB, read as memory_total_mb)
VramLevels == {8192, 12100, 20200, 22523, 30500}

\* memory.free values of the nvidia-smi query: one below and one above
\* every memory.total
FreeLevels == {4096, 32768}

\* the lines of the nvidia-smi query: a GPU line with its memory.total and
\* memory.free, a line of fewer than five fields, a line of five fields
\* whose index or memory field is not a number
Lines ==
    { [kind |-> "gpu", total |-> m, free |-> f] : m \in VramLevels, f \in FreeLevels }
        \cup { [kind |-> "short", total |-> 0, free |-> 0],
               [kind |-> "bad", total |-> 0, free |-> 0] }

RECURSIVE SeqsUpTo(_, _)
SeqsUpTo(S, n) ==
    IF n = 0 THEN {<<>>}
    ELSE LET shorter == SeqsUpTo(S, n - 1)
         IN  shorter \cup { Append(q, x) : q \in { r \in shorter : Len(r) = n - 1 }, x \in S }

RECURSIVE CountKind(_, _)
CountKind(lines, kind) ==
    IF lines = <<>> THEN 0
    ELSE (IF Head(lines).kind = kind THEN 1 ELSE 0) + CountKind(Tail(lines), kind)

\* the memory_total_mb of the GPUInfo appended for each GPU line, in order
RECURSIVE Totals(_)
Totals(lines) ==
    IF lines = <<>> THEN <<>>
    ELSE IF Head(lines).kind = "gpu"
    THEN <<Head(lines).total>> \o Totals(Tail(lines))
    ELSE Totals(Tail(lines))

\* the memory_free_mb of the GPUInfo appended for each GPU line, in order
RECURSIVE Frees(_)
Frees(lines) ==
    IF lines = <<>> THEN <<>>
    ELSE IF Head(lines).kind = "gpu"
    THEN <<Head(lines).free>> \o Frees(Tail(lines))
    ELSE Frees(Tail(lines))

\* detect_gpus: the empty list when the query fails; int()/float() raise
\* ValueError on a field that is not a number; short lines are passed over
detect_gpus(rc, lines) ==
    IF rc # 0 THEN [raised |-> FALSE, gpus |-> <<>>, free |-> <<>>]
    ELSE IF CountKind(lines, "bad") > 0 THEN [raised |-> TRUE, gpus |-> <<>>, free |-> <<>>]
    ELSE [raised |-> FALSE, gpus |-> Totals(lines), free |-> Frees(lines)]

\* a snapshot whose cuda_available says that the query succeeded
detect_system_by_rc(rc, lines) ==
    [ raised |-> detect_gpus(rc, lines).raised,
      gpus |-> detect_gpus(rc, lines).gpus,
      free |-> detect_gpus(rc, lines).free,
      cuda_available |-> (rc = 0) ]

\* detect_system: raises when detect_gpus does; gpus holds memory_total_mb
\* and free memory_free_mb of each GPUInfo
detect_system(rc, lines) ==
    [ raised |-> detect_gpus(rc, lines).raised,
      gpus |-> detect_gpus(rc, lines).gpus,
      free |-> detect_gpus(rc, lines).free,
      cuda_available |-> (Len(detect_gpus(rc, lines).gpus) > 0) ]

(***************************************************************************)
(* install: run_full_install up to the loop over `steps`.                  *)
(***************************************************************************)
BeginInstall(a, info, response) ==
    LET proceed == confirm(a, TRUE, response)
    IN  /\ pc \in {"idle", "done"}
        /\ runs < MaxRuns
        /\ runs' = runs + 1
        /\ cmd' = "install"
        /\ auto' = a
        /\ order' = <<>>
        /\ summary' = FALSE
        /\ idx' = 1
        /\ sv' = NoSv
        /\ modelsOut' = "none"
        /\ UNCHANGED detectVars
        /\ IF info.raised
           THEN \* the ValueError leaves main(): traceback, exit status 1
                /\ sysG' = NoInfo
                /\ inputRead' = FALSE
                /\ last' = NoStep
                /\ pc' = "done"
                /\ exitCode' = 1
           ELSE /\ sysG' = info.gpus
                /\ inputRead' = confirmReads(a)
                /\ IF response = Interrupt
                   THEN \* KeyboardInterrupt leaves input(), confirm() and main()
                        /\ last' = [NoStep EXCEPT !.interrupted = TRUE]
                        /\ pc' = "done"
                        /\ exitCode' \in InterruptExit
                   ELSE /\ last' = NoStep
                        /\ IF proceed
                           THEN pc' = "step" /\ exitCode' = -1
                           ELSE pc' = "done" /\ exitCode' = 1
        /\ UNCHANGED << files, run1 >>

\* a loop that passes over the entry after the NVIDIA driver step
NextStep_skipping(i) == IF i = 2 THEN i + 2 ELSE i + 1

\* the for loop of run_full_install: the next entry of `steps`
NextStep(i) == i + 1

(***************************************************************************)
(* The runner's handling of a step's result (run_full_install, the body    *)
(* of the loop after func()), then the summary and the exit of main().     *)
(* out.ret is "True", "False", "None", "raise" (an Exception left the step) *)
(* or "interrupt" (KeyboardInterrupt left the step).                       *)
(***************************************************************************)

\* a runner whose except clause also takes KeyboardInterrupt for handled
Uncaught_swallowed(ret, response) == FALSE

\* `except Exception` does not catch KeyboardInterrupt, whether it comes out
\* of the step or out of the input() of "Continue anyway?"
Uncaught(ret, response) == ret = "interrupt" \/ response = Interrupt

Runner(out, response) ==
    LET bad == out.ret \in {"False", "raise"}
        cont == IF bad THEN confirm(auto, TRUE, response) ELSE TRUE
    IN  /\ order' = Append(order, Steps[idx])
        /\ last' = [ step |-> Steps[idx], pre |-> out.pre, asked |-> out.asked,
                     declined |-> out.declined, cmds |-> out.cmds,
                     cmdFailed |-> out.cmdFailed, levels |-> out.levels,
                     ret |-> out.ret, modified |-> (files' # files),
                     rerun |-> (auto /\ run1.ok /\ run1.G = sysG),
                     runnerLog |-> IF out.ret = "False" THEN "Step failed"
                                   ELSE IF out.ret = "raise" THEN "Error in"
                                   ELSE "none",
                     contAsked |-> bad,
                     interrupted |-> (out.ret = "interrupt" \/ response = Interrupt) ]
        /\ inputRead' = (inputRead \/ (confirmReads(auto) /\ (out.asked \/ bad)))
        /\ IF Uncaught(out.ret, response)
           THEN \* the traceback of KeyboardInterrupt: no summary, no clean-up
                /\ pc' = "done" /\ exitCode' \in InterruptExit
                /\ idx' = idx /\ summary' = FALSE
           ELSE IF ~cont
           THEN \* return False: sys.exit(1)
                /\ pc' = "done" /\ exitCode' = 1
                /\ idx' = idx /\ summary' = FALSE
           ELSE IF idx = NumSteps
           THEN \* the loop is over: final summary, return True, sys.exit(0)
                /\ pc' = "done" /\ exitCode' = 0
                /\ idx' = idx /\ summary' = TRUE
           ELSE /\ pc' = "step" /\ exitCode' = exitCode
                /\ idx' = NextStep(idx) /\ summary' = FALSE
        /\ UNCHANGED << cmd, auto, sysG, runs, sv, modelsOut, detectVars >>

\* the answer to the runner's "Continue anyway?", asked after a failed step
Continue(r) == IF r.ret \in {"False", "raise"} THEN Answers[auto] ELSE {""}

AtStep(name) == pc = "step" /\ idx \in 1..NumSteps /\ Steps[idx] = name

\* a step function's result when it touches nothing but files
Plain(ret) ==
    [ pre |-> "na", asked |-> FALSE, declined |-> FALSE, cmds |-> 0,
      cmdFailed |-> FALSE, levels |-> {}, ret |-> ret ]

\* Ctrl-C while a step runs, before the step has written anything: at the
\* step's own prompt, or while one of its commands runs
StepInterrupted ==
    /\ pc = "step"
    /\ idx \in 1..NumSteps
    /\ UNCHANGED << files, run1 >>
    /\ Runner(Plain("interrupt"), "")

(***************************************************************************)
(* Step 1: setup_directories.  failAt = 0: nothing raises; 1..NumDirs: the *)
(* mkdir of that directory raises; NumDirs + 1: open(CONFIG_FILE, 'w')     *)
(* raises.  mkdir(exist_ok=True) of an existing directory does not raise,  *)
(* and the config is opened only when it does not exist.                   *)
(***************************************************************************)
\* setup_directories that writes the defaults whether or not config.json exists
setup_directories_resetting(d, config, failAt) ==
    IF failAt \in 1..NumDirs
    THEN [ ret |-> "raise", dirs |-> failAt - 1, config |-> config ]
    ELSE [ ret |-> "None", dirs |-> NumDirs, config |-> DEFAULT_CONFIG ]

setup_directories(d, config, failAt) ==
    IF failAt \in 1..NumDirs
    THEN [ ret |-> "raise", dirs |-> failAt - 1, config |-> config ]
    ELSE IF config.exists
    THEN [ ret |-> "None", dirs |-> NumDirs, config |-> config ]
    ELSE IF failAt = NumDirs + 1
    THEN [ ret |-> "raise", dirs |-> NumDirs, config |-> config ]
    ELSE [ ret |-> "None", dirs |-> NumDirs, config |-> DEFAULT_CONFIG ]

\* the calls that can raise: the mkdir of the base directory or of the last
\* directory while it is missing, the open of a missing config.json
DirFailures(d, config) ==
    {0} \cup { k \in {1, NumDirs} : k > d }
        \cup (IF config.exists THEN {} ELSE {NumDirs + 1})

StepDirectories ==
    /\ AtStep("Setup directories")
    /\ \E failAt \in DirFailures(dirs, configFile) :
          LET r == setup_directories(dirs, configFile, failAt)
          IN  \E c \in Continue(r) :
                /\ dirs' = r.dirs
                /\ configFile' = r.config
                /\ UNCHANGED << envFile, composeFile, scripts, bashrc, run1 >>
                /\ Runner(Plain(r.ret), c)

(***************************************************************************)
(* Step 2: install_nvidia_drivers.                                         *)
(***************************************************************************)

\* /proc/version: absent, or the set of markers its lower-cased text contains
ProcVersions ==
    { [present |-> FALSE, markers |-> {}] }
        \cup { [present |-> TRUE, markers |-> m] : m \in SUBSET {"microsoft", "wsl"} }

\* Installer.is_wsl: the second f.read() of the same handle returns ""
is_wsl(pv) ==
    IF ~pv.present THEN FALSE
    ELSE LET firstRead == pv.markers
             secondRead == {}
         IN  "microsoft" \in firstRead \/ "wsl" \in secondRead

\* the first command of rcs[1..n] that exits non-zero, 0 when none does
RECURSIVE FirstFail(_, _, _)
FirstFail(rcs, i, n) ==
    IF i > n THEN 0
    ELSE IF ~run_step(rcs[i], TRUE) THEN i
    ELSE FirstFail(rcs, i + 1, n)

AnyFail(rcs, n) == \E i \in 1..n : rcs[i] # 0

DriverCmds == 3

install_nvidia_drivers(a, wsl, smi, response, rcs) ==
    IF wsl
    THEN IF smi # 0
         THEN LET ans == confirm(a, FALSE, response)
              IN  [ pre |-> "fail", asked |-> TRUE, declined |-> ~ans, cmds |-> 0,
                    cmdFailed |-> FALSE, levels |-> {"SUCCESS", "WARNING"},
                    ret |-> IF ans THEN "True" ELSE "False" ]
         ELSE [ pre |-> "ok", asked |-> FALSE, declined |-> FALSE, cmds |-> 0,
                cmdFailed |-> FALSE, levels |-> {"SUCCESS"}, ret |-> "True" ]
    ELSE IF smi = 0
    THEN [ pre |-> "ok", asked |-> FALSE, declined |-> FALSE, cmds |-> 0,
           cmdFailed |-> FALSE, levels |-> {"SUCCESS"}, ret |-> "True" ]
    ELSE IF ~confirm(a, TRUE, response)
    THEN [ pre |-> "fail", asked |-> TRUE, declined |-> TRUE, cmds |-> 0,
           cmdFailed |-> FALSE, levels |-> {}, ret |-> "False" ]
    ELSE LET ff == FirstFail(rcs, 1, DriverCmds)
         IN  IF ff # 0
             THEN [ pre |-> "fail", asked |-> TRUE, declined |-> FALSE, cmds |-> ff,
                    cmdFailed |-> TRUE, levels |-> {}, ret |-> "False" ]
             ELSE [ pre |-> "fail", asked |-> TRUE, declined |-> FALSE,
                    cmds |-> DriverCmds, cmdFailed |-> FALSE,
                    levels |-> {"WARNING"}, ret |-> "True" ]

\* what the step can do, over every input it reads
DriversResults ==
    [ a \in BOOLEAN |->
        { install_nvidia_drivers(a, is_wsl(pv), smi, r, rcs) :
            pv \in ProcVersions, smi \in ExitCodes, r \in Typed(a), rcs \in Rcs(DriverCmds) } ]

StepDrivers ==
    /\ AtStep("Install NVIDIA drivers")
    /\ \E r \in DriversResults[auto] : \E c \in Continue(r) :
          /\ UNCHANGED << files, run1 >>
          /\ Runner(r, c)

(***************************************************************************)
(* Step 3: install_cuda_toolkit.  io is whether open(~/.bashrc, 'a')       *)
(* succeeds.                                                               *)
(***************************************************************************)
CudaCmds == 5

\* install_cuda_toolkit without the early return on a successful nvcc check
install_cuda_toolkit_unchecked(a, nvcc, response, rcs, io) ==
    [ pre |-> IF nvcc = 0 THEN "ok" ELSE "fail", asked |-> TRUE,
      declined |-> ~confirm(a, TRUE, response),
      cmds |-> IF confirm(a, TRUE, response) THEN CudaCmds ELSE 0,
      cmdFailed |-> confirm(a, TRUE, response) /\ (\E i \in 1..CudaCmds : rcs[i] # 0),
      levels |-> IF confirm(a, TRUE, response) /\ io = "ok" THEN {"SUCCESS"} ELSE {},
      ret |-> IF ~confirm(a, TRUE, response) THEN "False"
              ELSE IF io = "ok" THEN "True" ELSE "raise",
      append |-> IF confirm(a, TRUE, response) /\ io = "ok" THEN 1 ELSE 0 ]

install_cuda_toolkit(a, nvcc, response, rcs, io) ==
    IF nvcc = 0
    THEN [ pre |-> "ok", asked |-> FALSE, declined |-> FALSE, cmds |-> 0,
           cmdFailed |-> FALSE, levels |-> {"SUCCESS"}, ret |-> "True", append |-> 0 ]
    ELSE IF ~confirm(a, TRUE, response)
    THEN [ pre |-> "fail", asked |-> TRUE, declined |-> TRUE, cmds |-> 0,
           cmdFailed |-> FALSE, levels |-> {}, ret |-> "False", append |-> 0 ]
    ELSE \* every command runs with check=False and a failure is passed over
         IF io = "ok"
         THEN [ pre |-> "fail", asked |-> TRUE, declined |-> FALSE,
                cmds |-> CudaCmds, cmdFailed |-> AnyFail(rcs, CudaCmds),
                levels |-> {"SUCCESS"}, ret |-> "True", append |-> 1 ]
         ELSE [ pre |-> "fail", asked |-> TRUE, declined |-> FALSE,
                cmds |-> CudaCmds, cmdFailed |-> AnyFail(rcs, CudaCmds),
                levels |-> {}, ret |-> "raise", append |-> 0 ]

CudaResults ==
    [ a \in BOOLEAN |->
        { install_cuda_toolkit(a, nvcc, r, rcs, io) :
            nvcc \in ExitCodes, r \in Typed(a), rcs \in Rcs(CudaCmds), io \in IO } ]

StepCuda ==
    /\ AtStep("Install CUDA toolkit")
    /\ \E r \in CudaResults[auto] : \E c \in Continue(r) :
          /\ bashrc' = bashrc + r.append
          /\ UNCHANGED << dirs, configFile, envFile, composeFile, scripts, run1 >>
          /\ Runner(r, c)

(***************************************************************************)
(* Step 4: install_docker.  user is whether $USER is set and not empty.    *)
(***************************************************************************)
install_docker(a, dk, response, rc1, user, rc2) ==
    IF dk = 0
    THEN [ pre |-> "ok", asked |-> FALSE, declined |-> FALSE, cmds |-> 0,
           cmdFailed |-> FALSE, levels |-> {"SUCCESS"}, ret |-> "True" ]
    ELSE IF ~confirm(a, TRUE, response)
    THEN [ pre |-> "fail", asked |-> TRUE, declined |-> TRUE, cmds |-> 0,
           cmdFailed |-> FALSE, levels |-> {}, ret |-> "False" ]
    ELSE IF ~run_step(rc1, TRUE)
    THEN [ pre |-> "fail", asked |-> TRUE, declined |-> FALSE, cmds |-> 1,
           cmdFailed |-> TRUE, levels |-> {}, ret |-> "False" ]
    ELSE IF user
    THEN [ pre |-> "fail", asked |-> TRUE, declined |-> FALSE, cmds |-> 2,
           cmdFailed |-> (rc2 # 0), levels |-> {}, ret |-> "True" ]
    ELSE [ pre |-> "fail", asked |-> TRUE, declined |-> FALSE, cmds |-> 1,
           cmdFailed |-> FALSE, levels |-> {}, ret |-> "True" ]

DockerResults ==
    [ a \in BOOLEAN |->
        { install_docker(a, dk, r, rc1, user, rc2) :
            dk \in ExitCodes, r \in Typed(a), rc1 \in ExitCodes, user \in BOOLEAN,
            rc2 \in ExitCodes } ]

StepDocker ==
    /\ AtStep("Install Docker")
    /\ \E r \in DockerResults[auto] : \E c \in Continue(r) :
          /\ UNCHANGED << files, run1 >>
          /\ Runner(r, c)

(***************************************************************************)
(* Step 5: install_nvidia_container_toolkit.                               *)
(***************************************************************************)
ToolkitCmds == 6

install_nvidia_container_toolkit(a, test, response, rcs) ==
    IF test = 0
    THEN [ pre |-> "ok", asked |-> FALSE, declined |-> FALSE, cmds |-> 0,
           cmdFailed |-> FALSE, levels |-> {"SUCCESS"}, ret |-> "True" ]
    ELSE IF ~confirm(a, TRUE, response)
    THEN [ pre |-> "fail", asked |-> TRUE, declined |-> TRUE, cmds |-> 0,
           cmdFailed |-> FALSE, levels |-> {}, ret |-> "False" ]
    ELSE \* the result of run_step(check=False) is not looked at
         [ pre |-> "fail", asked |-> TRUE, declined |-> FALSE, cmds |-> ToolkitCmds,
           cmdFailed |-> AnyFail(rcs, ToolkitCmds), levels |-> {"SUCCESS"},
           ret |-> "True" ]

ToolkitResults ==
    [ a \in BOOLEAN |->
        { install_nvidia_container_toolkit(a, test, r, rcs) :
            test \in ExitCodes, r \in Typed(a), rcs \in Rcs(ToolkitCmds) } ]

StepToolkit ==
    /\ AtStep("Install NVIDIA Container Toolkit")
    /\ \E r \in ToolkitResults[auto] : \E c \in Continue(r) :
          /\ UNCHANGED << files, run1 >>
          /\ Runner(r, c)

(***************************************************************************)
(* Step 6: create_docker_compose.  The manifest is the f-string's          *)
(* substituted fields; everything else in it is constant text.  io is      *)
(* whether open(compose_file, 'w') succeeds.                               *)
(***************************************************************************)

\* config["llm"].get("tensor_parallel_size", 2)
ConfiguredTP(cfg) ==
    IF cfg.has_tp THEN cfg.tensor_parallel_size ELSE FallbackTP

\* a clamp that is applied only while no manifest exists yet
TensorParallel_first_only(cfg, info) ==
    IF info # NoInfo /\ ~composeFile.exists
    THEN Min(ConfiguredTP(cfg), info)
    ELSE ConfiguredTP(cfg)

\* lines 477-480: clamp to the number of detected GPUs
TensorParallel(cfg, info) ==
    IF info # NoInfo THEN Min(ConfiguredTP(cfg), info) ELSE ConfiguredTP(cfg)

\* config['llm']['model'].split('/')[-1]
ModelPref(model) == model[Len(model)]

\* the config create_docker_compose renders from
LoadConfig(config) == IF config.exists THEN config ELSE DEFAULT_CONFIG

\* the f-string with the configured values replaced by those of DEFAULT_CONFIG
Render_defaults(cfg, info) ==
    [ exists |-> TRUE,
      written |-> TRUE,
      vllm_port |-> DefaultVllmPort,
      model |-> DefaultModel,
      tensor_parallel |-> TensorParallel(cfg, info),
      max_model_len |-> DefaultMaxModelLen,
      gpu_memory_utilization |-> DefaultUtilization,
      anythingllm_port |-> DefaultAnythingPort,
      model_pref |-> ModelPref(DefaultModel),
      token_limit |-> DefaultMaxModelLen,
      models_volume |-> MODELS_DIR,
      data_volume |-> DATA_DIR ]

\* the f-string of lines 482-556: the host side of the published ports,
\* the values of the vllm command, GENERIC_OPEN_AI_MODEL_PREF and
\* GENERIC_OPEN_AI_MODEL_TOKEN_LIMIT, the host side of the volumes
Render(cfg, info) ==
    [ exists |-> TRUE,
      written |-> TRUE,
      vllm_port |-> cfg.vllm_port,
      model |-> cfg.model,
      tensor_parallel |-> TensorParallel(cfg, info),
      max_model_len |-> cfg.max_model_len,
      gpu_memory_utilization |-> cfg.gpu_memory_utilization,
      anythingllm_port |-> cfg.anythingllm_port,
      model_pref |-> ModelPref(cfg.model),
      token_limit |-> cfg.max_model_len,
      models_volume |-> MODELS_DIR,
      data_volume |-> DATA_DIR ]

\* json.load returns a document in which every key that lines 478-528
\* subscript is present
Usable(cfg) == cfg.readable /\ cfg.lacks = ""

\* create_docker_compose that, like create_env_file, leaves an existing file alone
create_docker_compose_once(config, info, old, io) ==
    IF ~Usable(LoadConfig(config))
    THEN [ ret |-> "raise", compose |-> old, levels |-> {} ]
    ELSE IF io = "ok"
    THEN [ ret |-> "True",
           compose |-> IF old.exists THEN old ELSE Render(LoadConfig(config), info),
           levels |-> {"SUCCESS"} ]
    ELSE [ ret |-> "raise", compose |-> old, levels |-> {} ]

\* create_docker_compose that opens docker-compose.yml for writing before
\* it reads config.json and builds the text
create_docker_compose_truncating(config, info, old, io) ==
    IF io # "ok"
    THEN [ ret |-> "raise", compose |-> old, levels |-> {} ]
    ELSE IF ~Usable(LoadConfig(config))
    THEN [ ret |-> "raise", compose |-> [NoCompose EXCEPT !.exists = TRUE], levels |-> {} ]
    ELSE [ ret |-> "True", compose |-> Render(LoadConfig(config), info),
           levels |-> {"SUCCESS"} ]

\* json.load (lines 473-475), the subscripts of config (478, 496-528) and
\* open(compose_file, 'w') (559) raise in this order; the file is opened
\* only after the whole text has been built
create_docker_compose(config, info, old, io) ==
    IF ~Usable(LoadConfig(config))
    THEN [ ret |-> "raise", compose |-> old, levels |-> {} ]
    ELSE IF io = "ok"
    THEN [ ret |-> "True", compose |-> Render(LoadConfig(config), info),
           levels |-> {"SUCCESS"} ]
    ELSE [ ret |-> "raise", compose |-> old, levels |-> {} ]

\* open() of a file under the base directory raises FileNotFoundError when
\* the directory is missing
Opens(d) == IF d >= 1 THEN {"ok"} ELSE {"raise"}

StepCompose ==
    /\ AtStep("Create Docker Compose")
    /\ \E io \in Opens(dirs) :
          LET r == create_docker_compose(configFile, sysG, composeFile, io)
          IN  \E c \in Continue(r) :
                /\ composeFile' = r.compose
                /\ run1' = [ ok |-> (auto /\ r.ret = "True"), G |-> sysG ]
                /\ UNCHANGED << dirs, configFile, envFile, scripts, bashrc >>
                /\ Runner([Plain(r.ret) EXCEPT !.levels = r.levels], c)

(***************************************************************************)
(* Step 7: create_env_file.  token is os.urandom(16).hex().                *)
(***************************************************************************)
Tokens == 1..NumTokens

\* the values a call of os.urandom can return: tokens are only ever compared
\* for equality, so the first one written is called 1, and one generated
\* while a token is on disk is any value, the same or another
Drawn(env) == IF env.exists THEN Tokens ELSE {1}

\* create_env_file without the check that .env exists
create_env_file_regenerating(env, token, io) ==
    IF io = "ok"
    THEN [ ret |-> "True", env |-> [exists |-> TRUE, VLLM_API_KEY |-> token],
           pre |-> IF env.exists THEN "exists" ELSE "absent",
           levels |-> {"SUCCESS", "WARNING"} ]
    ELSE [ ret |-> "raise", env |-> env,
           pre |-> IF env.exists THEN "exists" ELSE "absent", levels |-> {} ]

create_env_file(env, token, io) ==
    IF env.exists
    THEN [ ret |-> "True", env |-> env, pre |-> "exists", levels |-> {} ]
    ELSE IF io = "ok"
    THEN [ ret |-> "True", env |-> [exists |-> TRUE, VLLM_API_KEY |-> token],
           pre |-> "absent", levels |-> {"SUCCESS", "WARNING"} ]
    ELSE [ ret |-> "raise", env |-> env, pre |-> "absent", levels |-> {} ]

StepEnv ==
    /\ AtStep("Create .env file")
    /\ \E token \in Drawn(envFile), io \in Opens(dirs) :
          LET r == create_env_file(envFile, token, io)
          IN  \E c \in Continue(r) :
                /\ envFile' = r.env
                /\ UNCHANGED << dirs, configFile, composeFile, scripts, bashrc, run1 >>
                /\ Runner([Plain(r.ret) EXCEPT !.levels = r.levels, !.pre = r.pre], c)

(***************************************************************************)
(* Step 8: create_management_scripts.                                      *)
(***************************************************************************)
create_management_scripts(old, io) ==
    IF io = "ok"
    THEN [ ret |-> "True", scripts |-> TRUE, levels |-> {"SUCCESS"} ]
    ELSE [ ret |-> "raise", scripts |-> old, levels |-> {} ]

StepScripts ==
    /\ AtStep("Create management scripts")
    /\ \E io \in Opens(dirs) :
          LET r == create_management_scripts(scripts, io)
          IN  \E c \in Continue(r) :
                /\ scripts' = r.scripts
                /\ UNCHANGED << dirs, configFile, envFile, composeFile, bashrc, run1 >>
                /\ Runner([Plain(r.ret) EXCEPT !.levels = r.levels], c)

(***************************************************************************)
(* Step 9: pull_images.                                                    *)
(***************************************************************************)
NumImages == 2

pull_images(rcs) ==
    [ pre |-> "na", asked |-> FALSE, declined |-> FALSE, cmds |-> NumImages,
      cmdFailed |-> AnyFail(rcs, NumImages), levels |-> {}, ret |-> "True" ]

PullResults == { pull_images(rcs) : rcs \in Rcs(NumImages) }

StepPull ==
    /\ AtStep("Pull Docker images")
    /\ \E r \in PullResults : \E c \in Continue(r) :
          /\ UNCHANGED << files, run1 >>
          /\ Runner(r, c)

(***************************************************************************)
(* The supervisor commands of main(): serve/start, stop, status.  They run *)
(* docker and nvidia-smi with subprocess.run([...]) and look at no exit    *)
(* code; an executable that is not on the PATH makes subprocess.run raise  *)
(* FileNotFoundError, which nothing catches: traceback, exit status 1.     *)
(***************************************************************************)
\* a process that is not an install run has no Installer
NoInstaller ==
    /\ auto' = FALSE
    /\ sysG' = NoInfo
    /\ idx' = 1
    /\ order' = <<>>
    /\ last' = NoStep
    /\ inputRead' = FALSE
    /\ summary' = FALSE

\* an executable: it exits 0, exits non-zero, or is not on the PATH
Tools == {"ok", "nonzero", "missing"}

\* urlopen(..., timeout=5) returns ("up"), or raises: refused, timed out,
\* HTTP error ("down")
Probes == {"up", "down"}

start_services(docker) ==
    [ said |-> FALSE, ops |-> <<"up">>, probed |-> <<>>, health |-> <<>>, ports |-> <<>>,
      exit |-> IF docker = "missing" THEN 1 ELSE 0 ]

stop_services(docker) ==
    [ said |-> FALSE, ops |-> <<"down">>, probed |-> <<>>, health |-> <<>>, ports |-> <<>>,
      exit |-> IF docker = "missing" THEN 1 ELSE 0 ]

\* show_status that gives up on the second endpoint when the first is down
show_status_dependent(docker, smi, vllm, anything) ==
    IF docker = "missing"
    THEN [ said |-> FALSE, ops |-> <<"ps">>, probed |-> <<>>, health |-> <<>>,
           ports |-> <<>>, exit |-> 1 ]
    ELSE IF smi = "missing"
    THEN [ said |-> FALSE, ops |-> <<"ps", "gpu">>, probed |-> <<>>, health |-> <<>>,
           ports |-> <<>>, exit |-> 1 ]
    ELSE IF vllm = "down"
    THEN [ said |-> FALSE, ops |-> <<"ps", "gpu", "vllm">>,
           probed |-> <<vllm, anything>>, health |-> <<"down", "down">>,
           ports |-> <<StatusVllmPort>>, exit |-> 0 ]
    ELSE [ said |-> FALSE, ops |-> <<"ps", "gpu", "vllm", "anythingllm">>,
           probed |-> <<vllm, anything>>, health |-> <<vllm, anything>>,
           ports |-> <<StatusVllmPort, StatusAnythingPort>>, exit |-> 0 ]

show_status(docker, smi, vllm, anything) ==
    IF docker = "missing"
    THEN [ said |-> FALSE, ops |-> <<"ps">>, probed |-> <<>>, health |-> <<>>,
           ports |-> <<>>, exit |-> 1 ]
    ELSE IF smi = "missing"
    THEN [ said |-> FALSE, ops |-> <<"ps", "gpu">>, probed |-> <<>>, health |-> <<>>,
           ports |-> <<>>, exit |-> 1 ]
    ELSE \* each urlopen sits in its own try/except
         [ said |-> FALSE, ops |-> <<"ps", "gpu", "vllm", "anythingllm">>,
           probed |-> <<vllm, anything>>, health |-> <<vllm, anything>>,
           ports |-> <<StatusVllmPort, StatusAnythingPort>>, exit |-> 0 ]

\* a check of the installation that lets every command through
Installed_unchecked(d) == TRUE

\* BASE_DIR.exists()
Installed(d) == d >= 1

\* main(): the branch of a supervisor command, whose function did `out`
Supervisor(name, out) ==
    /\ pc \in {"idle", "done"}
    /\ cmd' = name
    /\ pc' = "done"
    /\ IF Installed(dirs)
       THEN /\ sv' = [ said |-> out.said, ops |-> out.ops, probed |-> out.probed,
                       health |-> out.health, ports |-> out.ports ]
            /\ exitCode' = out.exit
       ELSE \* "Not installed", sys.exit(1)
            /\ sv' = [NoSv EXCEPT !.said = TRUE]
            /\ exitCode' = 1
    /\ modelsOut' = "none"
    /\ NoInstaller
    /\ UNCHANGED << files, runs, run1, detectVars >>

\* what each function can do, over every state of the tools and endpoints
StartResults == { start_services(docker) : docker \in Tools }

StopResults == { stop_services(docker) : docker \in Tools }

StatusResults ==
    { show_status(docker, smi, vllm, anything) :
        docker \in Tools, smi \in Tools, vllm \in Probes, anything \in Probes }

Start == \E out \in StartResults : Supervisor("start", out)

Stop == \E out \in StopResults : Supervisor("stop", out)

Status == \E out \in StatusResults : Supervisor("status", out)

(***************************************************************************)
(* Changes of config.json between runs: the model-change command of        *)
(* src/models.py, and the user editing the file.                           *)
(***************************************************************************)
\* update_config_model that writes DEFAULT_CONFIG with the selected model in it
update_config_model_from_defaults(config, m) ==
    IF ~config.exists THEN [ ret |-> "False", config |-> config ]
    ELSE IF ~config.readable \/ config.lacks = "llm"
    THEN [ ret |-> "raise", config |-> config ]
    ELSE [ ret |-> "True",
           config |-> [ DEFAULT_CONFIG EXCEPT !.model = m.id,
                                              !.quantization = m.quantization,
                                              !.has_tp = TRUE,
                                              !.tensor_parallel_size = m.min_gpus ] ]

\* update_config_model: json.load raises on a file that is not JSON, and
\* config["llm"] raises KeyError when the section is missing, both before
\* the file is opened for writing
update_config_model(config, m) ==
    IF ~config.exists THEN [ ret |-> "False", config |-> config ]
    ELSE IF ~config.readable \/ config.lacks = "llm"
    THEN [ ret |-> "raise", config |-> config ]
    ELSE [ ret |-> "True",
           config |-> [ config EXCEPT !.model = m.id,
                                      !.quantization = m.quantization,
                                      !.has_tp = TRUE,
                                      !.tensor_parallel_size = m.min_gpus ] ]

\* main() of models.py, the `set` command (and `select` once a model is
\* chosen): the return value is not looked at; an exception ends the
\* process with a traceback and exit status 1
UpdateConfigModel(m) ==
    /\ pc \in {"idle", "done"}
    /\ cmd' = "models"
    /\ pc' = "done"
    /\ modelsOut' = update_config_model(configFile, m).ret
    /\ exitCode' = IF modelsOut' = "raise" THEN 1 ELSE 0
    /\ configFile' = update_config_model(configFile, m).config
    /\ run1' = IF configFile' = configFile THEN run1 ELSE NoRun
    /\ sv' = NoSv
    /\ NoInstaller
    /\ UNCHANGED detectVars
    /\ UNCHANGED << dirs, envFile, composeFile, scripts, bashrc, runs >>

\* the user sets llm.tensor_parallel_size in config.json, or deletes the key
EditConfig(has, tp) ==
    /\ pc \in {"idle", "done"}
    /\ configFile.exists
    /\ configFile' = [ configFile EXCEPT !.has_tp = has,
                                         !.tensor_parallel_size = IF has THEN tp ELSE 0 ]
    /\ configFile' # configFile
    /\ run1' = NoRun
    /\ UNCHANGED << pc, cmd, auto, sysG, idx, order, last, inputRead, summary,
                    exitCode, dirs, envFile, composeFile, scripts, bashrc, runs, sv,
                    modelsOut, detectVars >>

(***************************************************************************)
(* The detect command: detect_system, print_system_report, exit.  The      *)
(* report is what print_system_report prints of the GPUs: the "No NVIDIA   *)
(* GPUs detected" line, each GPU's total and free memory, the model        *)
(* classes it recommends and the tensor_parallel_size it states (0: none   *)
(* stated).                                                                *)
(***************************************************************************)
RECURSIVE Sum(_)
Sum(q) == IF q = <<>> THEN 0 ELSE Head(q) + Sum(Tail(q))

\* the RECOMMENDATIONS block written with `if` where the code has `elif`
Recommendations_independent_ifs(gpus) ==
    IF Len(gpus) >= 2
    THEN [ recs |-> (IF Sum(gpus) >= Vram70B THEN {"70B"} ELSE {})
                       \cup (IF Sum(gpus) >= Vram32BMulti THEN {"32B"} ELSE {}),
           tp |-> IF Sum(gpus) >= Vram70B THEN StatedTP ELSE 0 ]
    ELSE IF Len(gpus) = 1
    THEN [ recs |-> (IF gpus[1] >= Vram32BSingle THEN {"32B"} ELSE {})
                       \cup (IF gpus[1] >= Vram14B THEN {"14B"} ELSE {"8B"}),
           tp |-> 0 ]
    ELSE [ recs |-> {}, tp |-> 0 ]

\* lines 254-271 of print_system_report
Recommendations(gpus) ==
    IF Len(gpus) >= 2
    THEN IF Sum(gpus) >= Vram70B THEN [ recs |-> {"70B"}, tp |-> StatedTP ]
         ELSE IF Sum(gpus) >= Vram32BMulti THEN [ recs |-> {"32B"}, tp |-> 0 ]
         ELSE [ recs |-> {}, tp |-> 0 ]
    ELSE IF Len(gpus) = 1
    THEN IF gpus[1] >= Vram32BSingle THEN [ recs |-> {"32B"}, tp |-> 0 ]
         ELSE IF gpus[1] >= Vram14B THEN [ recs |-> {"14B"}, tp |-> 0 ]
         ELSE [ recs |-> {"8B"}, tp |-> 0 ]
    ELSE [ recs |-> {}, tp |-> 0 ]

print_system_report(info) ==
    [ ran |-> TRUE, raised |-> FALSE,
      n |-> Len(info.gpus), vram |-> Sum(info.gpus),
      cuda_available |-> info.cuda_available,
      noGpuMsg |-> (info.gpus = <<>>),
      recs |-> Recommendations(info.gpus).recs,
      tp |-> Recommendations(info.gpus).tp,
      totals |-> info.gpus,
      free |-> info.free ]

\* main(): the detect branch; an exception of detect_system leaves main()
Detect ==
    /\ pc = "idle"
    /\ cmd' = "detect"
    /\ pc' = "done"
    /\ LET info == detect_system(nvsmi.rc, nvsmi.lines)
       IN  IF info.raised
           THEN /\ report' = [NoReport EXCEPT !.ran = TRUE, !.raised = TRUE]
                /\ exitCode' = 1
           ELSE /\ report' = print_system_report(info)
                /\ exitCode' = 0
    /\ UNCHANGED << auto, sysG, idx, order, last, inputRead, summary, files, runs, sv,
                    modelsOut, run1, nvsmi >>

(***************************************************************************)
(* The specification.                                                      *)
(***************************************************************************)
\* what detect_system can return or raise, over every output of nvidia-smi
Snapshots ==
    { detect_system(rc, lines) : rc \in ExitCodes, lines \in SeqsUpTo(Lines, MaxGPUs) }

\* what run_full_install keeps of the snapshot: the number of GPUs
Detections == { [raised |-> i.raised, gpus |-> Len(i.gpus)] : i \in Snapshots }

Install == \E a \in BOOLEAN, info \in Detections : \E r \in Answers[a] : BeginInstall(a, info, r)

Next ==
    \/ Install
    \/ StepDirectories
    \/ StepDrivers
    \/ StepCuda
    \/ StepDocker
    \/ StepToolkit
    \/ StepCompose
    \/ StepEnv
    \/ StepScripts
    \/ StepPull
    \/ StepInterrupted
    \/ Start
    \/ Stop
    \/ Status
    \/ \E m \in MODELS : UpdateConfigModel(m)
    \/ \E has \in BOOLEAN, tp \in 1..MaxTP : EditConfig(has, tp)

Spec == Init /\ [][Next]_vars

(***************************************************************************)
(* The detect command on every output of nvidia-smi.                       *)
(***************************************************************************)
Queries == [ rc : ExitCodes, lines : SeqsUpTo(Lines, MaxLines) ]

InitDetect ==
    /\ Fresh
    /\ nvsmi \in Queries
    /\ report = NoReport

NextDetect == Detect

SpecDetect == InitDetect /\ [][NextDetect]_vars

(***************************************************************************)
(* Manifest generation, the model-change command and status on every       *)
(* config.json: the file is a document the user edits, so an install run   *)
(* reaches create_docker_compose, and the other commands start, with any   *)
(* values in it, or with a file that is not JSON or lacks a section or a   *)
(* key.                                                                    *)
(***************************************************************************)
\* values of llm.max_model_len, llm.gpu_memory_utilization (in hundredths),
\* server.vllm_port, server.anythingllm_port, paths.models_dir and
\* paths.data_dir: the default and another one
ModelLens == {DefaultMaxModelLen, 8192}
Utilizations == {DefaultUtilization, 90}
VllmPorts == {DefaultVllmPort, 8080}
AnythingPorts == {DefaultAnythingPort, 3002}
ModelsDirs == {MODELS_DIR, "/mnt/models"}
DataDirs == {DATA_DIR, "/mnt/data"}

\* llm.backend, llm.quantization and embedding.model: the defaults, and others
Untouched ==
    { [backend |-> "vllm", quantization |-> "awq", embedding |-> "BAAI/bge-large-en-v1.5"],
      [backend |-> "sglang", quantization |-> "gptq", embedding |-> "BAAI/bge-m3"] }

\* llm.tensor_parallel_size: absent, or 1..MaxTP
ParallelSizes ==
    { [has |-> FALSE, tp |-> 0] } \cup { [has |-> TRUE, tp |-> t] : t \in 1..MaxTP }

\* the documents json.load returns with every section and key in place
Configs ==
    { [ exists |-> TRUE, readable |-> TRUE, lacks |-> "",
        model |-> m.id, backend |-> u.backend,
        has_tp |-> t.has, tensor_parallel_size |-> t.tp,
        max_model_len |-> len, gpu_memory_utilization |-> util,
        quantization |-> u.quantization, embedding |-> u.embedding,
        vllm_port |-> vp, anythingllm_port |-> ap,
        models_dir |-> md, data_dir |-> dd ] :
        m \in MODELS, u \in Untouched, t \in ParallelSizes, len \in ModelLens,
        util \in Utilizations, vp \in VllmPorts, ap \in AnythingPorts,
        md \in ModelsDirs, dd \in DataDirs }

\* a config.json that is not JSON (its fields are never read), one without
\* the llm section, one without the key llm.max_model_len
Damaged ==
    { [DEFAULT_CONFIG EXCEPT !.readable = FALSE],
      [DEFAULT_CONFIG EXCEPT !.lacks = "llm"],
      [DEFAULT_CONFIG EXCEPT !.lacks = "max_model_len"] }

\* what Runner leaves in `last` after install_nvidia_container_toolkit found
\* the toolkit working
ToolkitFound ==
    [ NoStep EXCEPT !.step = Steps[5], !.pre = "ok", !.levels = {"SUCCESS"},
                    !.ret = "True" ]

\* the layout before the first install wrote it (again = FALSE), or as an
\* install with the defaults on one GPU left it
Layout(again) ==
    /\ composeFile = IF again THEN Render(DEFAULT_CONFIG, 1) ELSE NoCompose
    /\ envFile = IF again THEN [exists |-> TRUE, VLLM_API_KEY |-> 1] ELSE NoEnv
    /\ scripts = again
    /\ bashrc = 0

\* no command has run in this behaviour
Idle ==
    /\ pc = "idle"
    /\ cmd = "none"
    /\ auto = FALSE
    /\ sysG = NoInfo
    /\ idx = 1
    /\ order = <<>>
    /\ last = NoStep
    /\ inputRead = FALSE
    /\ runs = 0

\* an install run on a host with every tool in place has gone through its
\* first five steps
AtManifest(a, g) ==
    /\ pc = "step"
    /\ cmd = "install"
    /\ auto = a
    /\ sysG = g
    /\ idx = 6
    /\ order = SubSeq(Steps, 1, 5)
    /\ last = ToolkitFound
    /\ inputRead = confirmReads(a)
    /\ runs = 1

InitConfig ==
    /\ summary = FALSE
    /\ exitCode = -1
    /\ sv = NoSv
    /\ modelsOut = "none"
    /\ run1 = NoRun
    /\ nvsmi = NoQuery
    /\ report = NoReport
    /\ \/ /\ configFile = NoConfig
          /\ dirs = 0
          /\ Layout(FALSE)
          /\ Idle
       \/ /\ configFile \in Configs \cup Damaged
          /\ dirs = NumDirs
          /\ \E again \in BOOLEAN : Layout(again)
          /\ \/ Idle
             \/ \E a \in BOOLEAN, g \in 0..MaxGPUs : AtManifest(a, g)

NextConfig ==
    \/ StepCompose
    \/ StepEnv
    \/ StepScripts
    \/ StepPull
    \/ Status
    \/ \E m \in MODELS : UpdateConfigModel(m)

SpecConfig == InitConfig /\ [][NextConfig]_vars

(***************************************************************************)
(* The claims.                                                             *)
(***************************************************************************)
Range(q) == { q[i] : i \in 1..Len(q) }

InstallDone == cmd = "install" /\ pc = "done"

JustRan(name) == cmd = "install" /\ last.step = name

\* C1: the value rendered after --tensor-parallel-size in the manifest
\* written by create_docker_compose equals min(T, G) when G >= 1 and 1
\* when G = 0, for the configured tensor_parallel_size T >= 1 and the
\* detected GPU count G.
C1_ClampingLaw ==
    ( /\ JustRan("Create Docker Compose")
      /\ last.ret = "True"
      /\ LoadConfig(configFile).has_tp
      /\ LoadConfig(configFile).tensor_parallel_size >= 1 )
    => composeFile.tensor_parallel =
          IF sysG >= 1
          THEN Min(LoadConfig(configFile).tensor_parallel_size, sysG)
          ELSE 1

\* the order of the steps as the claim C2 gives it
ClaimedOrder ==
    << "Setup directories", "Install NVIDIA drivers", "Install CUDA toolkit",
       "Install Docker", "Install NVIDIA Container Toolkit", "Create Docker Compose",
       "Create .env file", "Create management scripts", "Pull Docker images" >>

\* C2: in every install run the steps attempted so far are an initial part
\* of the fixed order directories, NVIDIA drivers, CUDA toolkit, Docker,
\* NVIDIA container toolkit, manifest generation, secrets file, helper
\* scripts, image pull: none is attempted twice, early or out of order.
C2_FixedOrder ==
    /\ Len(order) <= Len(ClaimedOrder)
    /\ \A i \in 1..Len(order) : order[i] = ClaimedOrder[i]
    /\ pc = "step" => idx = Len(order) + 1

\* a run in which steps failed and which went through all nine steps
C2_Witness ==
    /\ InstallDone
    /\ Len(order) = NumSteps
    /\ dirs < NumDirs
    /\ ~composeFile.exists

\* C3: whenever the manifest-generation step is attempted, the directories
\* step has completed: the four directories and config.json exist.
C3_DirectoriesBeforeManifest ==
    ( cmd = "install" /\ "Create Docker Compose" \in Range(order) )
    => ( dirs = NumDirs /\ configFile.exists )

\* the steps that begin with a check of what is installed
PrecheckedSteps ==
    { "Install NVIDIA drivers", "Install CUDA toolkit", "Install Docker",
      "Install NVIDIA Container Toolkit" }

\* C4: when the pre-check of the driver, CUDA, Docker or container-toolkit
\* step succeeds, the step invokes no install command, asks no
\* confirmation, modifies no file, logs SUCCESS and returns success.
C4_PrecheckSkipsAction ==
    ( cmd = "install" /\ last.step \in PrecheckedSteps /\ last.pre = "ok" )
    => ( /\ last.cmds = 0
         /\ ~last.asked
         /\ ~last.modified
         /\ "SUCCESS" \in last.levels
         /\ last.ret = "True"
         /\ last.runnerLog = "none" )

\* an unattended run whose CUDA step found nvcc, after an earlier run
\* installed the toolkit
C4_Witness ==
    /\ JustRan("Install CUDA toolkit")
    /\ last.pre = "ok"
    /\ auto
    /\ bashrc = 1

\* C5: an unattended run reads no answer from the user, and when it ends
\* (without having been interrupted) it has attempted all nine steps, each
\* once.
C5_UnattendedRunsAllSteps ==
    ( InstallDone /\ auto /\ ~last.interrupted )
    => ( ~inputRead /\ order = ClaimedOrder )

\* C6: in interactive mode a step whose own confirmation is answered no
\* runs no action and is not reported failed; the run then either aborts
\* with a non-zero exit (required step) or goes on without a further
\* prompt (step not required).
C6_DeclinedStepIsSkipped ==
    ( cmd = "install" /\ ~auto /\ last.declined /\ ~last.interrupted )
    => ( /\ last.cmds = 0
         /\ last.runnerLog # "Step failed"
         /\ \/ (pc = "done" /\ exitCode = 1)
            \/ ~last.contAsked )

\* C7: a step one of whose commands exits non-zero ends failed: it logs no
\* SUCCESS, does not return success, and the runner applies its failure
\* policy.
C7_FailedCommandFailsStep ==
    ( cmd = "install" /\ last.cmdFailed )
    => ( /\ last.ret # "True"
         /\ "SUCCESS" \notin last.levels
         /\ last.runnerLog # "none"
         /\ last.contAsked )

\* C8: install exits 0 when it runs to its end, and exits 1 when the user
\* aborts or a required step fails; the directories step, on which
\* manifest generation rests, is a required step, and it has failed when
\* it was attempted and a directory is missing.
C8_ExitStatus ==
    ( InstallDone /\ ~last.interrupted ) =>
       /\ summary => exitCode = 0
       /\ (~summary) => exitCode = 1
       /\ ("Setup directories" \in Range(order) /\ dirs < NumDirs) => exitCode = 1

\* C9: once .env exists no command changes it: the token is generated at
\* most once.
C9_EnvNeverChanges == [][envFile.exists => envFile' = envFile]_vars

\* a later install run reached the secrets step with .env in place
C9_Witness ==
    /\ JustRan("Create .env file")
    /\ last.pre = "exists"
    /\ runs = 2

\* C10: an unattended install that follows an unattended install which
\* wrote the manifest, with the same GPU count and config.json not changed
\* in between, leaves docker-compose.yml as the first one wrote it.
C10_SameManifest ==
    ( JustRan("Create Docker Compose") /\ last.rerun ) => ~last.modified

\* the second of two such runs has written the manifest on two GPUs
C10_Witness ==
    /\ JustRan("Create Docker Compose")
    /\ last.rerun
    /\ last.ret = "True"
    /\ runs = 2
    /\ sysG = 2
    /\ composeFile.exists

\* a transition of an install run: its start, or one of its steps
InstallTransition == pc = "step" \/ runs' # runs

\* C11: no transition of an install run modifies, resets or deletes a
\* config.json that exists, whoever wrote it last (the first install, the
\* user, the model-change command).
C11_ConfigWrittenOnce ==
    [][(InstallTransition /\ configFile.exists) => configFile' = configFile]_vars

\* a second install went through the directories step and left in place a
\* config.json that no longer holds the defaults
C11_Witness ==
    /\ JustRan("Setup directories")
    /\ last.ret = "None"
    /\ runs = 2
    /\ configFile.exists
    /\ configFile # DEFAULT_CONFIG

C13_InterruptAborts ==
    [][(InstallTransition /\ last'.interrupted) =>
          ( /\ pc' = "done"
            /\ exitCode' \notin {0, -1}
            /\ ~summary'
            /\ dirs' >= dirs
            /\ << configFile, envFile, composeFile, scripts, bashrc >>'
                  = << configFile, envFile, composeFile, scripts, bashrc >> )]_vars

\* an unattended run interrupted in the secrets step, after it wrote the
\* directories, config.json and the manifest
C13_Witness ==
    /\ InstallDone
    /\ auto
    /\ last.interrupted
    /\ last.step = "Create .env file"
    /\ exitCode = 130
    /\ dirs = NumDirs
    /\ configFile.exists
    /\ composeFile.exists
    /\ ~envFile.exists

\* C14: while the base directory does not exist, serve/start, stop and
\* status print "Not installed", exit with status 1, begin no docker or
\* nvidia-smi command and no health probe, and create nothing.
C14_NotInstalled ==
    [][(cmd' \in {"start", "stop", "status"} /\ pc \in {"idle", "done"} /\ dirs = 0) =>
          ( /\ sv'.said
            /\ exitCode' = 1
            /\ sv'.ops = <<>>
            /\ sv'.probed = <<>>
            /\ files' = files )]_vars

\* status was run when an install had failed to create the base directory
C14_Witness ==
    /\ cmd = "status"
    /\ pc = "done"
    /\ dirs = 0
    /\ runs >= 1
    /\ sv.said
    /\ exitCode = 1

\* C15: with the base directory in place, status exits with status 0
\* whatever its sub-operations did: docker or nvidia-smi absent or exiting
\* non-zero, both probes down.
C15_StatusExitsZero ==
    ( cmd = "status" /\ pc = "done" /\ dirs >= 1 ) => exitCode = 0

\* the order of the operations of status as the claim C16 gives it
ClaimedStatusOrder == << "ps", "gpu", "vllm", "anythingllm" >>

\* C16: status begins its operations in the order service table, GPU
\* table, inference probe, retrieval probe; once the inference probe is
\* made the retrieval probe is made too, and each endpoint is reported
\* with its own state, whatever the state of the other.
C16_StatusOrder ==
    ( cmd = "status" /\ pc = "done" ) =>
       /\ Len(sv.ops) <= Len(ClaimedStatusOrder)
       /\ \A i \in 1..Len(sv.ops) : sv.ops[i] = ClaimedStatusOrder[i]
       /\ "vllm" \in Range(sv.ops) =>
             ( /\ "anythingllm" \in Range(sv.ops)
               /\ sv.health = sv.probed
               /\ Len(sv.health) = 2 )

\* the inference endpoint was down and the retrieval endpoint was reported up
C16_Witness ==
    /\ cmd = "status"
    /\ pc = "done"
    /\ sv.ops = ClaimedStatusOrder
    /\ sv.health = << "down", "up" >>
    /\ exitCode = 0

DetectDone == cmd = "detect" /\ pc = "done" /\ report.ran

\* a memory figure is at least g GB in the unit the report prints
AtLeastGB(mb, g) == mb >= g * MBperGB

\* C17 as stated: the recommendation by GPU count and VRAM in GB: two or
\* more GPUs with 45 GB or more give the 70B class, with 24 GB to under
\* 45 GB the 32B class; one GPU with 30 GB or more gives the 32B class,
\* with 20 GB to under 30 GB the 14B class, with under 20 GB the 8B class;
\* at most one class is recommended.
C17_RecommendationGB ==
    ( DetectDone /\ ~report.raised ) =>
       /\ (report.n >= 2 /\ AtLeastGB(report.vram, 45)) => report.recs = {"70B"}
       /\ (report.n >= 2 /\ AtLeastGB(report.vram, 24) /\ ~AtLeastGB(report.vram, 45))
             => report.recs = {"32B"}
       /\ (report.n = 1 /\ AtLeastGB(report.vram, 30)) => report.recs = {"32B"}
       /\ (report.n = 1 /\ AtLeastGB(report.vram, 20) /\ ~AtLeastGB(report.vram, 30))
             => report.recs = {"14B"}
       /\ (report.n = 1 /\ ~AtLeastGB(report.vram, 20)) => report.recs = {"8B"}
       /\ Cardinality(report.recs) <= 1

\* C17, amended: the same policy with the thresholds on memory_total_mb as
\* nvidia-smi prints it: 45000 and 24000 for the combined figure of two or
\* more GPUs, 30000 and 20000 for a single GPU; at most one class is
\* recommended.
C17_RecommendationMB ==
    ( DetectDone /\ ~report.raised ) =>
       /\ (report.n >= 2 /\ report.vram >= 45000) => report.recs = {"70B"}
       /\ (report.n >= 2 /\ report.vram >= 24000 /\ report.vram < 45000)
             => report.recs = {"32B"}
       /\ (report.n = 1 /\ report.vram >= 30000) => report.recs = {"32B"}
       /\ (report.n = 1 /\ report.vram >= 20000 /\ report.vram < 30000)
             => report.recs = {"14B"}
       /\ (report.n = 1 /\ report.vram < 20000) => report.recs = {"8B"}
       /\ Cardinality(report.recs) <= 1

\* two GPUs whose combined memory is shown as 44.0 GB get the 70B class
C17_Witness ==
    /\ DetectDone
    /\ report.n = 2
    /\ report.vram = 45046
    /\ report.recs = {"70B"}

\* C18: whenever the 70B class is recommended (N >= 2 GPUs, combined VRAM
\* of 45 GB or more), the tensor-parallel degree the recommendation states
\* is N.
C18_DegreeIsGpuCount ==
    ( DetectDone /\ report.n >= 2 /\ "70B" \in report.recs ) => report.tp = report.n

\* C19: in every snapshot cuda_available holds exactly when the GPU list is
\* not empty, and for an empty GPU list the report says that no NVIDIA GPU
\* was detected and recommends no model.
C19_NoGpuNoRecommendation ==
    ( DetectDone /\ ~report.raised ) =>
       /\ report.cuda_available <=> report.n > 0
       /\ report.n = 0 => (report.noGpuMsg /\ report.recs = {})
       /\ report.n > 0 => ~report.noGpuMsg

\* nvidia-smi exited 0 and printed only lines of fewer than five fields
C19_Witness ==
    /\ DetectDone
    /\ nvsmi.rc = 0
    /\ Len(nvsmi.lines) >= 1
    /\ report.n = 0
    /\ ~report.cuda_available
    /\ report.noGpuMsg

\* C20: detect_system never raises, whatever the tools print, and the
\* detect command exits 0.
C20_ProbeNeverRaises ==
    ( cmd = "detect" /\ pc = "done" ) => ( ~report.raised /\ exitCode = 0 )

\* C21: every GPU descriptor of every snapshot has memory_free_mb <=
\* memory_total_mb, also when nvidia-smi prints a memory.free above the
\* memory.total.
C21_FreeWithinTotal ==
    ( DetectDone /\ ~report.raised ) =>
       \A i \in 1..report.n : report.free[i] <= report.totals[i]

\* the manifest step of an install run has just written docker-compose.yml
ManifestWritten == JustRan("Create Docker Compose") /\ last.ret = "True"

\* C22: the manifest's published inference port, published RAG/UI port,
\* --model, --max-model-len and --gpu-memory-utilization values are those
\* of the config.json read when it was generated (of DEFAULT_CONFIG when
\* there is no config.json), whatever they are.
C22_ManifestFollowsConfig ==
    ManifestWritten =>
       /\ composeFile.vllm_port = LoadConfig(configFile).vllm_port
       /\ composeFile.anythingllm_port = LoadConfig(configFile).anythingllm_port
       /\ composeFile.model = LoadConfig(configFile).model
       /\ composeFile.max_model_len = LoadConfig(configFile).max_model_len
       /\ composeFile.gpu_memory_utilization = LoadConfig(configFile).gpu_memory_utilization

\* a manifest written over the one of an earlier install, from a config in
\* which none of the five values is the default
C22_Witness ==
    /\ ManifestWritten
    /\ scripts
    /\ configFile.exists
    /\ composeFile.vllm_port = 8080
    /\ composeFile.anythingllm_port = 3002
    /\ composeFile.model # DefaultModel
    /\ composeFile.max_model_len = 8192
    /\ composeFile.gpu_memory_utilization = 90

\* C23: the host directories of the manifest's volumes are paths.models_dir
\* and paths.data_dir of config.json, also when they are not the defaults.
C23_VolumesFollowConfig ==
    ( ManifestWritten /\ configFile.exists ) =>
       /\ composeFile.models_volume = configFile.models_dir
       /\ composeFile.data_volume = configFile.data_dir

\* the driver step logged "WSL environment detected" at SUCCESS and found
\* nvidia-smi failing
WslUnreachable ==
    /\ JustRan("Install NVIDIA drivers")
    /\ "SUCCESS" \in last.levels
    /\ last.pre = "fail"

\* C24: on a host detected as WSL whose nvidia-smi is unreachable the
\* driver step runs no install command, logs a warning and returns
\* success, in interactive and in unattended mode: the runner does not
\* report the step failed.
C24_WslDriversSatisfied ==
    ( WslUnreachable /\ ~last.interrupted )
    => ( /\ last.cmds = 0
         /\ "WARNING" \in last.levels
         /\ last.ret = "True"
         /\ last.runnerLog = "none" )

\* the fields of config.json that are not derived from the model
FrameFields ==
    { "exists", "readable", "lacks", "backend", "max_model_len", "gpu_memory_utilization",
      "embedding", "vllm_port", "anythingllm_port", "models_dir", "data_dir" }

\* C25: the model-change command selecting m, on a config.json that
\* json.load reads and that has its llm section, sets llm.model to m's id
\* and llm.quantization and llm.tensor_parallel_size to m's quantization
\* and min_gpus, and leaves every other field as it was; without a
\* config.json it returns False and creates no file.
C25_ModelChangeFrame ==
    [][\A m \in MODELS :
          UpdateConfigModel(m) =>
             /\ (~configFile.exists) =>
                    ( modelsOut' = "False" /\ configFile' = configFile )
             /\ (configFile.exists /\ configFile.readable /\ configFile.lacks # "llm") =>
                    ( /\ modelsOut' = "True"
                      /\ configFile'.model = m.id
                      /\ configFile'.quantization = m.quantization
                      /\ configFile'.has_tp
                      /\ configFile'.tensor_parallel_size = m.min_gpus
                      /\ \A f \in FrameFields : configFile'[f] = configFile[f] )]_vars

\* the model was changed in a config.json none of whose other values is
\* the default
C25_Witness ==
    /\ cmd = "models"
    /\ modelsOut = "True"
    /\ configFile.model # DefaultModel
    /\ configFile.quantization = "awq"
    /\ configFile.tensor_parallel_size = 1
    /\ configFile.backend = "sglang"
    /\ configFile.embedding = "BAAI/bge-m3"
    /\ configFile.max_model_len = 8192
    /\ configFile.gpu_memory_utilization = 90
    /\ configFile.vllm_port = 8080
    /\ configFile.anythingllm_port = 3002
    /\ configFile.models_dir = "/mnt/models"
    /\ configFile.data_dir = "/mnt/data"

\* C26: an install run that went into its steps and ended without having
\* been interrupted printed the final summary with the next-action
\* commands, whether every step succeeded, steps failed and the run went
\* on, or the run ended early after a failure.
C26_SummaryAlwaysPrinted ==
    ( InstallDone /\ ~last.interrupted /\ order # <<>> ) => summary

\* config.json is as the model-change command selecting m leaves it
SetTo(m) == configFile.exists /\ configFile = update_config_model(configFile, m).config

\* C27: an install that follows an install and a model-change command
\* selecting M, on G >= 1 GPUs, writes a manifest whose --model value is
\* M's id and whose tensor-parallel degree is min(M.min_gpus, G).
C27_ModelChangePropagates ==
    \A m \in MODELS :
       ( /\ JustRan("Create Docker Compose")
         /\ last.ret = "True"
         /\ runs >= 2
         /\ sysG >= 1
         /\ SetTo(m) )
       => ( /\ composeFile.model = m.id
            /\ composeFile.model_pref = ModelPref(m.id)
            /\ composeFile.tensor_parallel = Min(m.min_gpus, sysG) )

\* the second install wrote the manifest for a model that is not the one
\* of the defaults the first install wrote
C27_Witness ==
    /\ JustRan("Create Docker Compose")
    /\ last.ret = "True"
    /\ runs = 2
    /\ sysG = 2
    /\ \E m \in MODELS : SetTo(m) /\ m.id # DefaultModel /\ composeFile.model = m.id
    /\ composeFile.tensor_parallel = 1

\* C28: the two health probes of status go to the ports the manifest
\* publishes, which are the configured vllm_port and anythingllm_port.
C28_StatusUsesConfiguredPorts ==
    ( cmd = "status" /\ pc = "done" /\ Len(sv.ports) = 2 /\ composeFile.written ) =>
       sv.ports = << composeFile.vllm_port, composeFile.anythingllm_port >>

\* C29: every snapshot with at least one GPU gets exactly one model
\* recommendation, whatever the GPU count and the VRAM.
C29_OneRecommendation ==
    ( DetectDone /\ ~report.raised /\ report.n >= 1 ) => Cardinality(report.recs) = 1

\* C30: when create_docker_compose fails because config.json is not JSON
\* or lacks a section or key, the runner reports the step failed, and
\* docker-compose.yml, .env and config.json are as they were.
C30_ManifestAllOrNothing ==
    [][( /\ AtStep("Create Docker Compose")
         /\ last'.step = "Create Docker Compose"
         /\ last'.ret # "interrupt"
         /\ configFile.exists
         /\ ~Usable(configFile) ) =>
          ( /\ last'.ret = "raise"
            /\ last'.runnerLog = "Error in"
            /\ last'.contAsked
            /\ composeFile' = composeFile
            /\ envFile' = envFile
            /\ configFile' = configFile )]_vars

\* the step failed on a config.json without its llm section and left the
\* manifest of the earlier install in place
C30_Witness ==
    /\ JustRan("Create Docker Compose")
    /\ last.ret = "raise"
    /\ last.runnerLog = "Error in"
    /\ configFile.lacks = "llm"
    /\ composeFile = Render(DEFAULT_CONFIG, 1)
    /\ envFile.exists

=============================================================================
